---- MODULE Spec2Model ----
(***************************************************************************)
(* ZoMBI-Discrete: the optimization driver of src/zombi.py                 *)
(* (class ZoMBI_Discrete: __init__, activate_zombi, optimize).             *)
(*                                                                         *)
(* Arrays are sequences; a point is a tuple of coordinates.  Array         *)
(* indices are kept 0-based as in the source (idx, idx_old, mem,           *)
(* idx_within_bounds), and At(s, i) reads position i of a sequence.        *)
(* The collaborators that live outside zombi.py (surrogate model,          *)
(* acquisition strategy, space-filling selector) are deterministic         *)
(* functions of their arguments whose values are not known: the model      *)
(* draws an answer when a collaborator is called, remembers what the       *)
(* driver read of it, and every later call with the same arguments         *)
(* answers consistently with what was read before.                         *)
(***************************************************************************)
EXTENDS Integers, Sequences, FiniteSets, TLC

----------------------------------------------------------------------------
(* Bounds of the explored inputs *)
MaxRegular == 2
MaxActivations == 2
MaxMemory == 2
MaxForward == 2
MaxEnsemble == 2
MaxSeeds == 3

----------------------------------------------------------------------------
(* Inputs *)

\* The Candidate Dataset handed to the constructor: 2-D points and labels.
DatasetX == << <<4, 0>>, <<0, 0>>, <<3, 3>>, <<1, 2>>, <<2, 0>> >>
DatasetFX == <<0, 2, 3, 4, 1>>

\* self.batch = 1
batch == 1

\* The four supported acquisition strategies and one other callable.
Supported == {"LCB", "EI", "LCB_ada", "EI_abrupt"}
AcquisitionChoices == Supported \cup {"PI"}

\* The driver never looks at which strategy it holds once __init__ has
\* accepted it, so the run parameters are varied under one strategy and the
\* other strategies are constructed with one fixed set of run parameters.
RunStrategy == "LCB"

\* Seeds handed to optimize: the first k pairs of the dataset.
SeedX(k) == SubSeq(DatasetX, 1, k)
SeedFX(k) == SubSeq(DatasetFX, 1, k)

----------------------------------------------------------------------------
(* numpy helpers *)

At(s, i) == s[i + 1]

SetMin(S) == CHOOSE m \in S : \A x \in S : m <= x
SetMax(S) == CHOOSE m \in S : \A x \in S : m >= x

\* -1 * array
Negate(s) == [i \in 1..Len(s) |-> 0 - s[i]]

\* np.minimum.accumulate
MinimumAccumulate(s) == [i \in 1..Len(s) |-> SetMin({s[j] : j \in 1..i})]

\* Python slice s[lo:hi] for 0 <= lo <= hi
Slice(s, lo, hi) == SubSeq(s, lo + 1, IF hi < Len(s) THEN hi ELSE Len(s))

\* Python slice s[-m:]; -0 is 0, so s[-0:] is the whole array
TailSlice(s, m) ==
    IF m = 0 THEN s
    ELSE IF m >= Len(s) THEN s
    ELSE SubSeq(s, Len(s) - m + 1, Len(s))

RECURSIVE SortedSeq(_)
SortedSeq(S) ==
    IF S = {} THEN <<>>
    ELSE LET m == SetMin(S) IN <<m>> \o SortedSeq(S \ {m})

\* np.unique(fX, return_index=True)[1]: for each distinct value, ascending,
\* the index of its first occurrence
UniqueIndex(f) ==
    LET vals == SortedSeq({f[i] : i \in 1..Len(f)})
    IN  [k \in 1..Len(vals) |->
            SetMin({i \in 1..Len(f) : f[i] = vals[k]}) - 1]

\* array[indices] (fancy indexing by a sequence of 0-based indices)
Take(s, indices) == [k \in 1..Len(indices) |-> At(s, indices[k])]

\* np.min(rows, axis=0) and np.max(rows, axis=0)
AxisMin(rows) ==
    [c \in 1..Len(rows[1]) |-> SetMin({rows[r][c] : r \in 1..Len(rows)})]
AxisMax(rows) ==
    [c \in 1..Len(rows[1]) |-> SetMax({rows[r][c] : r \in 1..Len(rows)})]

ContainsNothing(X_new, row) == FALSE

\* `row in X_new` for a 2-D array X_new and a 1-D row: (X_new == row).any(),
\* an element-wise comparison after broadcasting
Contains(X_new, row) ==
    \E r \in 1..Len(X_new) : \E c \in 1..Len(row) : X_new[r][c] = row[c]

\* The first len entries of np.argsort over m scores: len distinct indices
TopRanks(m, len) ==
    {p \in [1..len -> 0..(m - 1)] :
        \A i, j \in 1..len : i # j => p[i] # p[j]}

----------------------------------------------------------------------------
(* Collaborators defined outside zombi.py *)

\* find_indices_within_bounds: inclusive box membership per dimension
find_indices_within_bounds(X, lo, hi) ==
    SortedSeq({i \in 0..(Len(X) - 1) :
        \A c \in 1..Len(lo) : lo[c] <= At(X, i)[c] /\ At(X, i)[c] <= hi[c]})

\* discrete_LHS(X, n, return_indices=True): the selections it can return,
\* n distinct indices into X
discrete_LHS(X, cnt) ==
    {s \in [1..cnt -> 0..(Len(X) - 1)] :
        \A i, j \in 1..cnt : i < j => s[i] < s[j]}

----------------------------------------------------------------------------
VARIABLES
    pc, exc,
    \* constructor arguments / instance fields
    dataset_X, dataset_fX, BO, nregular, activations, memory, forward,
    ensemble,
    \* optimize arguments
    X_initial, fX_initial,
    \* optimize, per ensemble member
    e, n, a, fX_best_list, idx_old, X_initial_i, fX_initial_i, compute_i,
    X_i, fX_i, fX_min_i,
    \* activate_zombi
    mem, bound_l_i, bound_u_i, idx_within_bounds, X_bounded, fX_bounded,
    \* the last acquisition call: the points scored, the ranks of
    \* np.argsort(ac_value) that decided the pick, and the pick
    ac_X, ac_order, idx,
    \* the ensemble aggregate
    X, fX, fX_min, compute, bound_l, bound_u,
    \* what the driver has read of the collaborators' answers so far
    memo_rank, memo_pick, memo_LHS

cfgVars == <<dataset_X, dataset_fX, BO, nregular, activations, memory,
             forward, ensemble>>
argVars == <<X_initial, fX_initial>>
regVars == <<fX_best_list, idx_old, X_initial_i, fX_initial_i>>
histVars == <<X_i, fX_i, fX_min_i>>
actVars == <<mem, bound_l_i, bound_u_i, idx_within_bounds, X_bounded,
             fX_bounded>>
acVars == <<ac_X, ac_order, idx>>
aggVars == <<X, fX, fX_min, compute, bound_l, bound_u>>
memoVars == <<memo_rank, memo_pick, memo_LHS>>

vars == <<pc, exc, cfgVars, argVars, e, n, a, regVars, compute_i, histVars,
          actVars, acVars, aggVars, memoVars>>

\* An attribute that has not been assigned yet
Unset == <<>>

\* bounded_norm and bounded_fX of the current activation
bounded_norm == Take(dataset_X, idx_within_bounds)
bounded_fX == Take(dataset_fX, idx_within_bounds)

----------------------------------------------------------------------------
(* The acquisition strategy and the selector as deterministic functions *)

\* The arguments of self.BO(...) that vary: the points to score, the points
\* and labels the surrogate model was fitted on, n, fX_best, fX_best_min
BOKey(Xc, Xt, fXt, step, best, trace) == <<Xc, Xt, fXt, step, best, trace>>

\* [i for i in np.argsort(ac_value) if bounded_norm[i] not in X_new][:batch]
ForwardPick(order, pool, X_new) ==
    LET ok == SelectSeq(order, LAMBDA i : ~Contains(X_new, At(pool, i)))
    IN  Slice(ok, 0, batch)

\* np.argsort(self.BO(X=..., ...)) in a regular step, cut after the last
\* rank the step can read (rank batch + 1): every answer that agrees with
\* what earlier calls with the same arguments showed
RegularAnswers(key) ==
    LET m == Len(key[1])
        depth == IF m < batch + 2 THEN m ELSE batch + 2
    IN  {o \in TopRanks(m, depth) :
            \A p \in memo_rank :
                (p[1] = key /\ p[2] < depth) => At(o, p[2]) = p[3]}

\* np.argsort(self.BO(X=bounded_norm, ...)) in a forward step, cut after the
\* first index that passes the filter of the pick.  The indices ranked
\* before it are filtered out whatever their order, and are listed in
\* ascending order.
ForwardAnswers(key) ==
    LET pool == key[1]
        X_new == key[2]
        all == 0..(Len(pool) - 1)
        out == {i \in all : Contains(X_new, At(pool, i))}
        cut == IF out = all
               THEN {SortedSeq(all)}
               ELSE {SortedSeq(S) \o <<i>> : S \in SUBSET out, i \in all \ out}
    IN  {o \in cut :
            \A p \in memo_pick :
                p[1] = key => ForwardPick(o, pool, X_new) = p[2]}

\* discrete_LHS(X=Xp, n=cnt, return_indices=True)
LHSAnswers(Xp, cnt) ==
    IF \E p \in memo_LHS : p[1] = <<Xp, cnt>>
    THEN {p[2] : p \in {q \in memo_LHS : q[1] = <<Xp, cnt>>}}
    ELSE discrete_LHS(Xp, cnt)

----------------------------------------------------------------------------
Init ==
    /\ pc = "new"
    /\ exc = "none"
    /\ dataset_X = DatasetX
    /\ dataset_fX = DatasetFX
    /\ BO \in AcquisitionChoices
    /\ forward \in 0..MaxForward
    /\ IF BO = RunStrategy
       THEN /\ nregular \in 0..MaxRegular
            /\ activations \in 0..MaxActivations
            /\ memory \in 0..MaxMemory
            /\ ensemble \in 1..MaxEnsemble
       ELSE /\ nregular = 0
            /\ activations = 1
            /\ memory = 1
            /\ ensemble = 1
    /\ X_initial = Unset /\ fX_initial = Unset
    /\ e = 0 /\ n = 0 /\ a = 0
    /\ fX_best_list = <<>> /\ idx_old = <<>>
    /\ X_initial_i = Unset /\ fX_initial_i = Unset
    /\ compute_i = 0
    /\ X_i = Unset /\ fX_i = Unset /\ fX_min_i = Unset
    /\ mem = <<>> /\ bound_l_i = Unset /\ bound_u_i = Unset
    /\ idx_within_bounds = <<>> /\ X_bounded = <<>> /\ fX_bounded = <<>>
    /\ ac_X = <<>> /\ ac_order = <<>> /\ idx = <<>>
    /\ X = Unset /\ fX = Unset /\ fX_min = Unset /\ compute = Unset
    /\ bound_l = Unset /\ bound_u = Unset
    /\ memo_rank = {} /\ memo_pick = {} /\ memo_LHS = {}

----------------------------------------------------------------------------
(* __init__ *)

\* BO == LCB or BO == EI or BO == LCB_ada or BO == EI_abrupt
ValidBO(f) == f \in Supported

ValidForwardFromOne(f) == f >= 1

\* forward > 1
ValidForward(f) == f > 1

Construct ==
    /\ pc = "new"
    /\ IF ValidBO(BO) /\ ValidForward(forward)
       THEN pc' = "ready" /\ exc' = exc
       ELSE pc' = "config_error" /\ exc' = "ValueError"
    /\ UNCHANGED <<cfgVars, argVars, e, n, a, regVars, compute_i, histVars,
                   actVars, acVars, aggVars, memoVars>>

----------------------------------------------------------------------------
(* optimize: entry and the head of the ensemble loop *)

\* optimize(X_initial, fX_initial) is called on a constructed driver
Optimize ==
    /\ pc = "ready"
    /\ \E k \in 1..MaxSeeds :
        /\ X_initial' = SeedX(k)
        /\ fX_initial' = SeedFX(k)
    /\ e' = 0
    /\ pc' = "member"
    /\ UNCHANGED <<exc, cfgVars, n, a, regVars, compute_i, histVars,
                   actVars, acVars, aggVars, memoVars>>

InitialIdxOldKept(previous) == previous

\* idx_old = np.array([0])
InitialIdxOld(previous) == <<0>>

InitialHistoryKept(seeds, previous) ==
    IF previous = Unset THEN seeds ELSE previous

\* X_initial_i = X_initial
InitialHistory(seeds, previous) == seeds

\* The head of one iteration of `for e in range(self.ensemble)`
BeginMember ==
    /\ pc = "member"
    /\ fX_best_list' = <<>>
    /\ idx_old' = InitialIdxOld(idx_old)
    /\ X_initial_i' = InitialHistory(X_initial, X_initial_i)
    /\ fX_initial_i' = InitialHistory(fX_initial, fX_initial_i)
    /\ compute_i' = 0
    /\ n' = 0
    /\ pc' = "regular"
    /\ UNCHANGED <<exc, cfgVars, argVars, e, a, histVars, actVars, acVars,
                   aggVars, memoVars>>

----------------------------------------------------------------------------
(* optimize: the regular phase *)

RegularRangeOneMore == 0..nregular

\* range(self.nregular)
RegularRange == 0..(nregular - 1)

\* The points the acquisition strategy is asked to score in a regular step
RegularCandidates(X_new) == X_new

\* j = j + 1; idx = np.argsort(ac_value)[j + 1 : self.batch + j + 1], j = 0
DedupFallback(order) == Slice(order, 2, 2 + 1)

\* The outcomes of `if idx == idx_old:` for two index arrays.  Comparing a
\* one-element array with an empty one gives an empty array, whose truth
\* value is False with a (suppressed) deprecation warning in some numpy
\* versions and a ValueError in others.
IdxEqual(new, old) ==
    IF Len(old) = 0 THEN {"false", "error"}
    ELSE IF new = old THEN {"true"} ELSE {"false"}

\* One iteration of `for n in range(self.nregular)`
RegularStep ==
    /\ pc = "regular"
    /\ n \in RegularRange
    /\ LET X_new == X_initial_i
           fX_new == fX_initial_i
           fX_best == SetMax({fX_new[i] : i \in 1..Len(fX_new)})
           best_list == Append(fX_best_list, fX_best)
           fX_best_min == MinimumAccumulate(Negate(best_list))
           cand == RegularCandidates(X_new)
           key == BOKey(cand, X_new, fX_new, n, fX_best, fX_best_min)
       IN  \E order \in RegularAnswers(key) :
           \E cmp \in IdxEqual(Slice(order, 0, batch), idx_old) :
             LET first == Slice(order, 0, batch)
                 pick == IF cmp = "true" THEN DedupFallback(order) ELSE first
                 read == IF cmp = "true" /\ Len(pick) > 0 THEN {0, 2} ELSE {0}
             IN  /\ fX_best_list' = best_list
                 /\ memo_rank' = memo_rank \cup
                        {<<key, r, At(order, r)>> : r \in read}
                 /\ ac_X' = cand
                 /\ ac_order' = IF cmp = "true" THEN order ELSE first
                 /\ compute_i' = compute_i + 1
                 /\ IF cmp = "error"
                    THEN /\ pc' = "crashed" /\ exc' = "ValueError"
                         /\ idx' = first
                         /\ UNCHANGED <<n, idx_old, X_initial_i,
                                        fX_initial_i>>
                    ELSE IF \E k \in 1..Len(pick) : pick[k] >= Len(dataset_X)
                    THEN /\ pc' = "crashed" /\ exc' = "IndexError"
                         /\ idx' = pick
                         /\ UNCHANGED <<n, idx_old, X_initial_i,
                                        fX_initial_i>>
                    ELSE /\ X_initial_i' = X_new \o Take(dataset_X, pick)
                         /\ fX_initial_i' = fX_new \o Take(dataset_fX, pick)
                         /\ idx' = pick
                         /\ idx_old' = pick
                         /\ n' = n + 1
                         /\ UNCHANGED <<pc, exc>>
    /\ UNCHANGED <<cfgVars, argVars, e, a, histVars, actVars, aggVars,
                   memo_pick, memo_LHS>>

\* After the regular loop: self.X_i, self.fX_i, self.fX_min_i
RegularDone ==
    /\ pc = "regular"
    /\ n \notin RegularRange
    /\ X_i' = X_initial_i
    /\ fX_i' = fX_initial_i
    /\ fX_min_i' = MinimumAccumulate(Negate(fX_initial_i))
    /\ a' = 0
    /\ pc' = "activations"
    /\ UNCHANGED <<exc, cfgVars, argVars, e, n, regVars, compute_i, actVars,
                   acVars, aggVars, memoVars>>

----------------------------------------------------------------------------
(* activate_zombi *)

MemoryWindowLowest(f, m) ==
    IF m = 0 THEN UniqueIndex(f) ELSE Slice(UniqueIndex(f), 0, m)

\* mem = np.unique(self.fX_i, return_index=True)[1][-self.memory:]
MemoryWindow(f, m) == TailSlice(UniqueIndex(f), m)

OutOfPointsForwardOnly(within) == Len(within) < forward * batch

\* len(idx_within_bounds) < (self.memory + self.forward * self.batch)
OutOfPoints(within) == Len(within) < memory + forward * batch

RecordBoundReplaced(trajectory, vector, current_act) == <<vector>>

\* if current_act == 0: self.bound_l_i = min_vector
\* else: self.bound_l_i = np.vstack([self.bound_l_i, min_vector])
RecordBound(trajectory, vector, current_act) ==
    IF current_act = 0 THEN <<vector>> ELSE Append(trajectory, vector)

\* activate_zombi up to the forward loop, called from
\* `for a in range(self.activations)` inside try
ActivateZombi ==
    /\ pc = "activations"
    /\ a < activations
    /\ LET window == MemoryWindow(fX_i, memory)
           min_vector == AxisMin(Take(X_i, window))
           max_vector == AxisMax(Take(X_i, window))
           within == find_indices_within_bounds(dataset_X, min_vector,
                                                max_vector)
           pool == Take(dataset_X, within)
           pool_fX == Take(dataset_fX, within)
       IN  /\ mem' = window
           /\ bound_l_i' = RecordBound(bound_l_i, min_vector, a)
           /\ bound_u_i' = RecordBound(bound_u_i, max_vector, a)
           /\ idx_within_bounds' = within
           /\ IF OutOfPoints(within)
              THEN /\ pc' = "except" /\ exc' = "OutOfPointsException"
                   /\ UNCHANGED <<n, X_bounded, fX_bounded, memo_LHS>>
              ELSE \E idx_lhs \in LHSAnswers(pool, memory) :
                   /\ memo_LHS' = memo_LHS \cup {<<(<<pool, memory>>), idx_lhs>>}
                   /\ X_bounded' = Take(pool, idx_lhs)
                   /\ fX_bounded' = Take(pool_fX, idx_lhs)
                   /\ n' = 0
                   /\ pc' = "forward"
                   /\ UNCHANGED exc
    /\ UNCHANGED <<cfgVars, argVars, e, a, regVars, compute_i, histVars,
                   acVars, aggVars, memo_rank, memo_pick>>

\* except OutOfPointsException as e: print(format_exc(e)); break
\* format_exc takes a frame limit, not an exception: comparing the
\* exception with an integer raises TypeError inside the handler
ExceptOutOfPoints ==
    /\ pc = "except"
    /\ pc' = "crashed"
    /\ exc' = "TypeError"
    /\ UNCHANGED <<cfgVars, argVars, e, n, a, regVars, compute_i, histVars,
                   actVars, acVars, aggVars, memoVars>>

\* range(self.forward)
ForwardRange == 0..(forward - 1)

PickedPointsFromDataset(pool, pick) == Take(dataset_X, pick)

\* bounded_norm[idx]
PickedPoints(pool, pick) == Take(pool, pick)

\* One iteration of `for n in range(self.forward)`
ForwardStep ==
    /\ pc = "forward"
    /\ n \in ForwardRange
    /\ LET X_new == X_bounded
           fX_new == fX_bounded
       IN  IF Len(X_new) = 0
           THEN \* self.GP.fit on an empty array
                /\ pc' = "crashed" /\ exc' = "ValueError"
                /\ UNCHANGED <<n, X_bounded, fX_bounded, compute_i, acVars,
                               memo_pick>>
           ELSE LET key == BOKey(bounded_norm, X_new, fX_new, n,
                                 fX_min_i[Len(fX_min_i)], fX_min_i)
                IN  \E order \in ForwardAnswers(key) :
                    LET pick == ForwardPick(order, bounded_norm, X_new)
                    IN  /\ memo_pick' = memo_pick \cup {<<key, pick>>}
                        /\ ac_X' = bounded_norm
                        /\ ac_order' = order
                        /\ idx' = pick
                        /\ compute_i' = compute_i + 1
                        /\ X_bounded' = X_new \o PickedPoints(bounded_norm, pick)
                        /\ fX_bounded' = fX_new \o Take(dataset_fX, pick)
                        /\ n' = n + 1
                        /\ UNCHANGED <<pc, exc>>
    /\ UNCHANGED <<cfgVars, argVars, e, a, regVars, histVars, mem, bound_l_i,
                   bound_u_i, idx_within_bounds, aggVars, memo_rank,
                   memo_LHS>>

\* fX_bounded_min = np.minimum.accumulate(-1 * fX_bounded)
LocalTrace(f) == MinimumAccumulate(Negate(f))

ExtendTraceDropped(trace, local) == trace

\* self.fX_min_i = np.hstack([self.fX_min_i, fX_min_i])
ExtendTrace(trace, local) == trace \o local

\* activate_zombi returns; optimize stacks the returned arrays
ActivationReturn ==
    /\ pc = "forward"
    /\ n \notin ForwardRange
    /\ X_i' = X_i \o X_bounded
    /\ fX_i' = fX_i \o fX_bounded
    /\ fX_min_i' = ExtendTrace(fX_min_i, LocalTrace(fX_bounded))
    /\ a' = a + 1
    /\ pc' = "activations"
    /\ UNCHANGED <<exc, cfgVars, argVars, e, n, regVars, compute_i, actVars,
                   acVars, aggVars, memoVars>>

FinalTraceAsStacked(t) == t

\* self.fX_min_i = np.minimum.accumulate(self.fX_min_i)
FinalTrace(t) == MinimumAccumulate(t)

\* The activation loop has run all its iterations
ActivationsDone ==
    /\ pc = "activations"
    /\ a >= activations
    /\ fX_min_i' = FinalTrace(fX_min_i)
    /\ pc' = "aggregate"
    /\ UNCHANGED <<exc, cfgVars, argVars, e, n, a, regVars, compute_i, X_i,
                   fX_i, actVars, acVars, aggVars, memoVars>>

----------------------------------------------------------------------------
(* optimize: aggregation of one member, `if e == 0: ... else: ...` *)

\* np.vstack of a stack of equally long rows with one more row
SameLength(rows, row) == Len(rows[1]) = Len(row)

\* np.hstack of two trajectories, row by row
Hstack(A, B) == [r \in 1..Len(A) |-> A[r] \o B[r]]

Aggregate ==
    /\ pc = "aggregate"
    /\ IF e = 0
       THEN /\ X' = X_i
            /\ fX' = <<fX_i>>
            /\ fX_min' = <<fX_min_i>>
            /\ compute' = <<compute_i>>
            /\ IF bound_l_i = Unset
               THEN \* self.bound_l_i was never assigned
                    /\ pc' = "crashed" /\ exc' = "AttributeError"
                    /\ UNCHANGED <<e, bound_l, bound_u>>
               ELSE /\ bound_l' = bound_l_i
                    /\ bound_u' = bound_u_i
                    /\ e' = e + 1
                    /\ pc' = IF e + 1 < ensemble THEN "member" ELSE "done"
                    /\ UNCHANGED exc
       ELSE /\ X' = X \o X_i
            /\ IF ~SameLength(fX, fX_i)
               THEN /\ pc' = "crashed" /\ exc' = "ValueError"
                    /\ UNCHANGED <<e, fX, fX_min, compute, bound_l, bound_u>>
               ELSE /\ fX' = Append(fX, fX_i)
                    /\ fX_min' = Append(fX_min, fX_min_i)
                    /\ compute' = Append(compute, compute_i)
                    /\ IF Len(bound_l) # Len(bound_l_i)
                       THEN /\ pc' = "crashed" /\ exc' = "ValueError"
                            /\ UNCHANGED <<e, bound_l, bound_u>>
                       ELSE /\ bound_l' = Hstack(bound_l, bound_l_i)
                            /\ bound_u' = Hstack(bound_u, bound_u_i)
                            /\ e' = e + 1
                            /\ pc' = IF e + 1 < ensemble THEN "member"
                                     ELSE "done"
                            /\ UNCHANGED exc
    /\ UNCHANGED <<cfgVars, argVars, n, a, regVars, compute_i, histVars,
                   actVars, acVars, memoVars>>

----------------------------------------------------------------------------
Next ==
    \/ Construct
    \/ Optimize
    \/ BeginMember
    \/ RegularStep
    \/ RegularDone
    \/ ActivateZombi
    \/ ExceptOutOfPoints
    \/ ForwardStep
    \/ ActivationReturn
    \/ ActivationsDone
    \/ Aggregate

Spec == Init /\ [][Next]_vars

----------------------------------------------------------------------------
(* Properties *)

NonIncreasing(t) == \A i \in 2..Len(t) : t[i] <= t[i - 1]

Smaller(x, y) == IF x < y THEN x ELSE y

\* C1: when a zoom activation raises the exhaustion condition inside
\* optimize, the run is not aborted: the handler absorbs it and optimize
\* goes on to aggregate the member's history.
C1_ExhaustionDoesNotAbort ==
    [][pc = "except" => (pc' # "crashed" /\ exc' # "TypeError")]_vars

C3_ZoomNeedsEnoughPoints ==
    /\ [](pc = "forward" => Len(idx_within_bounds) >= memory + forward)
    /\ [][(pc = "activations" /\ pc' # "aggregate") =>
            IF Len(idx_within_bounds') < memory + forward
            THEN pc' = "except" /\ exc' = "OutOfPointsException"
                 /\ UNCHANGED <<X_bounded, fX_bounded, X_i, fX_i>>
            ELSE pc' = "forward"]_vars
    /\ [][exc # "none" =>
            /\ pc' \notin {"activations", "forward", "except"}
            /\ UNCHANGED <<a, mem, bound_l_i, bound_u_i, idx_within_bounds,
                           X_bounded, fX_bounded>>]_vars

\* Exhaustion with exactly memory + forward - 1 points inside the box.
C3_Witness ==
    /\ pc = "except"
    /\ memory >= 1
    /\ Len(idx_within_bounds) = memory + forward - 1

\* C4: the Running Best Trace a member contributes to the aggregate is
\* non-increasing at every index.
C4_TraceNonIncreasing ==
    /\ pc = "aggregate" => NonIncreasing(fX_min_i)
    /\ \A r \in 1..Len(fX_min) : NonIncreasing(fX_min[r])

\* A member is aggregated whose last activation restarted its local trace
\* above the running best reached before it.
C4_Witness ==
    /\ pc = "aggregate"
    /\ a >= 1
    /\ Len(fX_bounded) >= 1
    /\ Len(fX_i) > Len(fX_bounded)
    /\ 0 - fX_bounded[1] > fX_min_i[Len(fX_i) - Len(fX_bounded)]

\* C5: in an activation's forward loop no point appears twice in the local
\* point set; a forward pick differs from every point already there.
C5_NoDuplicateInLocalSet ==
    pc = "forward" =>
        \A i, j \in 1..Len(X_bounded) : i < j => X_bounded[i] # X_bounded[j]

\* A forward loop that has appended a point in each of its steps.
C5_Witness ==
    /\ pc = "forward"
    /\ memory >= 1
    /\ Len(X_bounded) = memory + forward

\* C6: __init__ raises a configuration error exactly when the strategy is
\* not one of the four supported or forward <= 1; then the driver is never
\* used; otherwise construction succeeds.
C6_ConstructorValidates ==
    pc # "new" =>
        /\ (pc = "config_error") <=>
              ~(BO \in {"LCB", "EI", "LCB_ada", "EI_abrupt"} /\ forward > 1)
        /\ pc = "config_error" =>
              exc = "ValueError" /\ X_initial = Unset /\ X = Unset

\* A supported strategy rejected because forward is 1.
C6_Witness ==
    /\ pc = "config_error"
    /\ BO \in Supported
    /\ forward = 1

\* C7: the Memory Window never has more than min(memory, |Observation
\* History|) indices.
C7_WindowWithinMemory ==
    pc \in {"forward", "except"} =>
        Len(mem) <= Smaller(memory, Len(fX_i))

\* C8: with deterministic collaborators, a later run over the same dataset,
\* seeds and configuration produces the Observation History of the first.
C8_RunsAgree ==
    (pc = "aggregate" /\ e >= 1) =>
        /\ fX_i = fX[1]
        /\ X_i = SubSeq(X, 1, Len(fX[1]))

\* A second run is aggregated after regular steps and a completed activation.
C8_Witness ==
    /\ pc = "aggregate"
    /\ e = 1
    /\ nregular >= 1
    /\ a >= 1
    /\ Len(X_i) > Len(X_initial) + nregular

\* C9: a regular-phase step scores every point of the Candidate Dataset.
C9_ScoresWholeDataset ==
    (pc = "regular" /\ n > 0) => ac_X = dataset_X

\* C10: a regular-phase step keeps the best-scored index unless it equals
\* the preceding step's pick, and then takes the second-ranked index.
C10_DedupTakesSecondRanked ==
    [][(pc = "regular" /\ pc' = "regular" /\ n' = n + 1) =>
         idx' = IF n > 0 /\ <<At(ac_order', 0)>> = idx_old
                THEN <<At(ac_order', 1)>>
                ELSE <<At(ac_order', 0)>>]_vars

\* C11: every regular-phase iteration appends exactly one (point, label)
\* pair, so when the regular phase is over the Observation History has
\* seed count + nregular entries.
C11_RegularAppendsOne ==
    /\ [][(pc = "regular" /\ pc' = "regular" /\ n' = n + 1) =>
            /\ Len(X_initial_i') = Len(X_initial_i) + 1
            /\ Len(fX_initial_i') = Len(fX_initial_i) + 1]_vars
    /\ []((pc = "activations" /\ a = 0) =>
            Len(X_i) = Len(X_initial) + nregular)

\* A pair of the Candidate Dataset: a point with the label the dataset
\* gives to that point
DatasetPair(x, y) ==
    \E k \in 1..Len(dataset_X) : dataset_X[k] = x /\ dataset_fX[k] = y

\* C12: every pair added to the Observation History after the seeds, and
\* every pair of an activation's local set, is a pair of the Candidate
\* Dataset.
C12_LabelsBelongToPoints ==
    /\ pc \in {"activations", "aggregate"} =>
          /\ Len(fX_i) = Len(X_i)
          /\ \A i \in 1..Len(X_i) : DatasetPair(X_i[i], fX_i[i])
    /\ pc = "forward" =>
          /\ Len(fX_bounded) = Len(X_bounded)
          /\ \A i \in 1..Len(X_bounded) :
                DatasetPair(X_bounded[i], fX_bounded[i])

\* A point equal, in all its coordinates, to a point of X_new
ExactMember(X_new, row) == \E r \in 1..Len(X_new) : X_new[r] = row

\* C13: every forward step picks the lowest-scored point of the filtered
\* pool that is not equal, as a whole point, to a point of the local set and
\* appends exactly that point, so the local set an activation returns has
\* memory + forward points.
C13_ForwardPicksBestNewPoint ==
    /\ [][(pc = "forward" /\ pc' = "forward" /\ n' = n + 1) =>
            /\ Len(idx') = 1
            /\ idx' = Slice(SelectSeq(ac_order', LAMBDA i :
                         ~ExactMember(X_bounded, At(bounded_norm, i))), 0, 1)
            /\ X_bounded' = Append(X_bounded, At(bounded_norm, idx'[1]))]_vars
    /\ []((pc = "forward" /\ n \notin ForwardRange) =>
            Len(X_bounded) = memory + forward)

\* C14: at the start of every activation the Running Best Trace is
\* non-increasing and its last entry, the best value handed to the
\* acquisition strategy, is the negated best label of the whole Observation
\* History: the cumulative-minimum pass has been applied after each
\* completed activation.
C14_PassAfterEachActivation ==
    (pc = "activations" /\ a < activations) =>
        /\ NonIncreasing(fX_min_i)
        /\ fX_min_i[Len(fX_min_i)] =
               SetMin({0 - fX_i[i] : i \in 1..Len(fX_i)})

C16_WindowHoldsBestDistinct ==
    pc \in {"forward", "except"} =>
        LET H == 1..Len(fX_i)
            W == {mem[k] + 1 : k \in 1..Len(mem)}
            inWindow == {fX_i[i] : i \in W}
        IN  /\ W \subseteq H
            /\ \A k, l \in 1..Len(mem) :
                  k # l => At(fX_i, mem[k]) # At(fX_i, mem[l])
            /\ SetMax({fX_i[i] : i \in H}) \in inWindow
            /\ \A i \in H : fX_i[i] \notin inWindow =>
                  \A v \in inWindow : fX_i[i] < v

\* A window of two indices over a history with a repeated label and with
\* more than two distinct labels.
C16_Witness ==
    /\ pc = "forward"
    /\ memory = 2
    /\ Len(mem) = 2
    /\ Cardinality({fX_i[i] : i \in 1..Len(fX_i)}) > 2
    /\ Cardinality({fX_i[i] : i \in 1..Len(fX_i)}) < Len(fX_i)

\* C17: an activation that fails with exhaustion leaves the member's
\* Observation History and Running Best Trace as they were, and the member
\* then goes to the aggregate with exactly that history: the seeds, the
\* regular-phase picks and the points of the activations completed before.
C17_ExhaustedMemberAggregated ==
    /\ [][pc' = "except" => UNCHANGED <<X_i, fX_i, fX_min_i>>]_vars
    /\ [][pc = "except" =>
            /\ pc' = "aggregate"
            /\ UNCHANGED <<X_i, fX_i>>
            /\ fX_min_i' = MinimumAccumulate(fX_min_i)]_vars

\* C18: every attempted activation of a member appends exactly one box to
\* the member's Bounding Box Trajectory, the per-dimension minimum and
\* maximum over the activation's Memory Window; the box of an activation
\* that fails with exhaustion stays, so the trajectory has one box per
\* completed activation plus one if the member exhausted.
C18_OneBoxPerActivation ==
    /\ pc \in {"forward", "except"} =>
          /\ Len(bound_l_i) = a + 1
          /\ Len(bound_u_i) = a + 1
          /\ bound_l_i[a + 1] = AxisMin(Take(X_i, mem))
          /\ bound_u_i[a + 1] = AxisMax(Take(X_i, mem))
    /\ (pc \in {"activations", "aggregate"} /\ a >= 1) =>
          Len(bound_l_i) = a /\ Len(bound_u_i) = a
    /\ (pc = "crashed" /\ Len(idx_within_bounds) < memory + forward
           /\ exc = "TypeError") =>
          Len(bound_l_i) = a + 1 /\ Len(bound_u_i) = a + 1

\* A member exhausted in its second activation, with two boxes recorded.
C18_Witness ==
    /\ pc = "crashed"
    /\ exc = "TypeError"
    /\ a = 1
    /\ Len(bound_l_i) = 2
    /\ bound_l_i[1] # bound_l_i[2]

\* A point inside a box, bounds included in every dimension
InBox(x, lo, hi) == \A c \in 1..Len(x) : lo[c] <= x[c] /\ x[c] <= hi[c]

\* C19: every point of an activation's local set, memory seed points and
\* forward picks, is a point of the Candidate Dataset inside the
\* activation's bounding box, and so is every point an activation has added
\* to the Observation History.
C19_ZoomStaysInBox ==
    /\ [](pc = "forward" =>
          \A i \in 1..Len(X_bounded) :
              /\ \E k \in 1..Len(dataset_X) : dataset_X[k] = X_bounded[i]
              /\ InBox(X_bounded[i], bound_l_i[a + 1], bound_u_i[a + 1]))
    /\ [][(pc = "forward" /\ pc' = "activations") =>
            /\ X_i' = X_i \o X_bounded
            /\ \A i \in 1..Len(X_bounded) :
                  InBox(X_bounded[i], bound_l_i[a + 1], bound_u_i[a + 1])]_vars

\* An activation returns seeds and two forward picks from a box that leaves
\* some point of the dataset outside.
C19_Witness ==
    /\ pc = "forward"
    /\ n = forward
    /\ memory >= 1
    /\ Len(X_bounded) = memory + forward
    /\ Len(idx_within_bounds) < Len(dataset_X)

\* C20: every ensemble member starts from exactly the supplied seeds with
\* an empty compute trace, and contributes to the aggregate what the first
\* member, which ran with nothing before it, contributed: the same
\* Observation History, Running Best Trace, compute trace and Bounding Box
\* Trajectory.
C20_MembersIndependent ==
    /\ (pc = "regular" /\ n = 0) =>
          /\ X_initial_i = X_initial
          /\ fX_initial_i = fX_initial
          /\ compute_i = 0
          /\ fX_best_list = <<>>
    /\ (pc = "aggregate" /\ e >= 1) =>
          /\ X_i = SubSeq(X, 1, Len(X_i))
          /\ fX_i = fX[1]
          /\ fX_min_i = fX_min[1]
          /\ compute_i = compute[1]
          /\ Len(bound_l_i) = Len(bound_l)
          /\ \A r \in 1..Len(bound_l_i) :
                /\ bound_l_i[r] = SubSeq(bound_l[r], 1, Len(bound_l_i[r]))
                /\ bound_u_i[r] = SubSeq(bound_u[r], 1, Len(bound_u_i[r]))
    /\ pc = "done" =>
          /\ Len(fX) = ensemble
          /\ \A r \in 1..Len(fX) :
                /\ fX[r] = fX[1]
                /\ fX_min[r] = fX_min[1]
                /\ compute[r] = compute[1]
                /\ SubSeq(X, (r - 1) * Len(fX[1]) + 1, r * Len(fX[1]))
                     = SubSeq(X, 1, Len(fX[1]))

\* Two members have been aggregated, each after a regular step and two
\* activations.
C20_Witness ==
    /\ pc = "done"
    /\ ensemble = 2
    /\ nregular >= 1
    /\ a = 2
    /\ Len(bound_l[1]) = 2 * Len(bound_l_i[1])
    /\ Len(X) > 2 * (Len(X_initial) + nregular)

====
